---- MODULE Spec2Model ----
(***************************************************************************)
(* Model of xbmc/windowing/WinSystem.cpp (CWinSystemBase): the resolution  *)
(* catalog (AddResolution, resSortPredicate, ScreenResolutions), the       *)
(* refresh-rate collection and selection (AddRefreshRate, RefreshRates,    *)
(* DefaultRefreshRate), the render-loop registry (RegisterRenderLoop,     *)
(* UnregisterRenderLoop, DriveRenderLoop) and the HDR status and toggle    *)
(* (GetHDRDisplayStatus, IsDisplayHDREnabled, ToggleWindowsHDR).           *)
(*                                                                         *)
(* C++ vectors are sequences: element [k] of a vector is element k+1 of    *)
(* the sequence.  The display-settings store is a function of the index    *)
(* GetResolutionInfo takes.  Refresh rates (float) are small integers, on  *)
(* which ==, < and fabs are exact.                                         *)
(***************************************************************************)
EXTENDS Integers, Sequences, FiniteSets

VARIABLES
  m_resolutions,        \* CDisplaySettings store: index -> RESOLUTION_INFO
  cmpIn,                \* the three entries handed to resSortPredicate
  cmpOut,               \* results of resSortPredicate on every pair of cmpIn
  srPc,                 \* position of ScreenResolutions: "loop", "done";
                        \*   "again" once it was run a second time
  srIdx,                \* its loop index idx
  srRate,               \* its argument refreshrate
  resolutions,          \* its local vector<RESOLUTION_WHR>
  srUnsorted,           \* the vector as it was when sort() was entered
  srAgain,              \* the vector a second run returns, made on the
                        \*   records the returned vector names
  rrPc,                 \* position of RefreshRates: "loop", "done"
  rrIdx,                \* its loop index idx
  rrArgs,               \* its arguments <<width, height, dwFlags>>
  refreshrates,         \* its local vector<REFRESHRATE>
  rrUnsorted,           \* the vector as it was when sort() was entered
  drPc,                 \* position of DefaultRefreshRate:
                        \*   "entry", "loop", "done", "crashed"
  rates,                \* its argument
  drI,                  \* its loop index i
  bestmatch,            \* its local bestmatch
  bestfitness,          \* its local bestfitness
  drOutOfRange,         \* TRUE once rates[0] was read with rates empty
  m_renderLoopClients,  \* vector<IRenderLoop*>
  m_renderLoopSection,  \* the critical section: its owner thread, 0 when free
  thPc,                 \* per thread: "idle"; "register", "registered",
                        \*   "unregister", "erased" (inside the call, lock
                        \*   held); for the render thread also "pumped",
                        \*   "driving", "framemove"
  thArg,                \* per thread: the client argument of its call
  thIt,                 \* per thread: the iterator i of UnregisterRenderLoop
  drvIt,                \* the iterator i of DriveRenderLoop, as a position
  tickLog,              \* what the current DriveRenderLoop call did, in order
  refClients,           \* the participant list of the reference sequence model
  hdrCode,              \* the byte the platform writes to request[20] for the
                        \*   display: its advanced-colour state
  hdrOp,                \* the HDR operation called last, "none" before any
  hdrFailed,            \* the platform call that failed in it, or "none"
  status,               \* what the last GetHDRDisplayStatus returned
  txDeviceInfo,         \* its local txDeviceInfo, "" when never assigned
  hdrServiceUp,         \* what CServiceBroker::IsServiceManagerUp() said in it
  hdrLogged,            \* the text it handed to CLog::LogF, "" when none
  hdrEnabled,           \* what the last IsDisplayHDREnabled returned
  hdrLog                \* the ToggleWindowsHDR calls so far, one record each

storeVars == <<m_resolutions>>
sortVars == <<cmpIn, cmpOut>>
resVars == <<srPc, srIdx, srRate, resolutions, srUnsorted, srAgain>>
rrVars == <<rrPc, rrIdx, rrArgs, refreshrates, rrUnsorted>>
drVars == <<drPc, rates, drI, bestmatch, bestfitness, drOutOfRange>>

loopVars == <<m_renderLoopClients, m_renderLoopSection, thPc, thArg, thIt, drvIt,
              tickLog, refClients>>

hdrVars == <<hdrCode, hdrOp, hdrFailed, status, txDeviceInfo, hdrServiceUp, hdrLogged,
             hdrEnabled, hdrLog>>

vars == <<storeVars, sortVars, resVars, rrVars, drVars, loopVars, hdrVars>>

----------------------------------------------------------------------------
(* Bounds of the model *)

MaxModes == 4           \* custom records in the store (indices >= RES_CUSTOM)
MaxCmp == 2             \* width, height, flags of comparator inputs: 0..MaxCmp
MaxRRModes == 2         \* custom records in the store RefreshRates scans
MaxRates == 3           \* length of the vector handed to DefaultRefreshRate
MaxFps == 4             \* refresh rates handed to DefaultRefreshRate: 0..MaxFps
MaxClients == 2         \* render-loop participants: 1..MaxClients
MaxListLen == 4         \* length of m_renderLoopClients
MaxMutators == 2        \* threads other than the render thread
MaxToggles == 3         \* ToggleWindowsHDR calls in a run

\* <<width, height, dwFlags>> of the records of the store.  dwFlags 1 is
\* the interlaced bit (a mode bit), dwFlags 2 the widescreen bit (no mode
\* bit): <<1, 1, 0>> and <<1, 1, 2>> differ only outside the mode mask.
ModeKeys == { <<1, 1, 0>>, <<1, 1, 1>>, <<1, 1, 2>>, <<1, 2, 0>>, <<2, 1, 0>> }
\* The keys of the stores the claims about the scan alone are checked on:
\* two of one key with different dwFlags, one that differs from them in a mode
\* bit only, one that differs in the height only.
ScanKeys == { <<1, 1, 0>>, <<1, 1, 1>>, <<1, 1, 2>>, <<1, 2, 0>> }
Rates == {1, 2}         \* refresh rates of records
\* ScreenResolutions reads a rate only in "bestRefreshrate > 0.0 &&
\* refreshrate == bestRefreshrate": preferred rate 2 is preferred rate 1 with
\* the rates of the records swapped.
PreferredRates == {0, 1}

----------------------------------------------------------------------------
(* Constants of the program *)

xD0 == 208              \* 0xD0: display is not HDR capable
xD1 == 209              \* 0xD1: capable and HDR is OFF
xD3 == 211              \* 0xD3: capable and HDR is ON
RES_WINDOW == 15
RES_DESKTOP == 16
RES_CUSTOM == 17
D3DPRESENTFLAG_MODEMASK == 25

RECURSIVE BitAnd(_, _)
BitAnd(a, b) ==
  IF a = 0 \/ b = 0 THEN 0
  ELSE (a % 2) * (b % 2) + 2 * BitAnd(a \div 2, b \div 2)

----------------------------------------------------------------------------
(* The display-settings store *)

RESOLUTION_INFO ==
  { [iScreenWidth |-> k[1], iScreenHeight |-> k[2], dwFlags |-> k[3],
     fRefreshRate |-> r] : k \in ModeKeys, r \in Rates }

\* The records below RES_WINDOW are never read by the code modelled here and
\* are left out of m_resolutions: its domain is RES_WINDOW..size-1.
ResolutionInfoSize == RES_WINDOW + Cardinality(DOMAIN m_resolutions)

GetResolutionInfo(idx) == m_resolutions[idx]

\* "(int)(0.965 * height)".
Subtitles(height) == (965 * height) \div 1000

\* The RES_WINDOW record as InitWindowSystem leaves it, with the screen size,
\* flags and rate of `info`.  Besides the fields of RESOLUTION_INFO it has the
\* fields UpdateResolutions and SetWindowResolution read and write.
WindowOf(info) ==
  [iScreenWidth |-> info.iScreenWidth, iScreenHeight |-> info.iScreenHeight,
   dwFlags |-> info.dwFlags, fRefreshRate |-> info.fRefreshRate,
   iWidth |-> info.iScreenWidth, iHeight |-> info.iScreenHeight,
   iSubtitles |-> Subtitles(info.iScreenHeight), bFullScreen |-> FALSE,
   fPixelRatio |-> 1, strMode |-> "Windowed"]

\* A store whose RES_WINDOW record is made of `window` and whose records from
\* RES_DESKTOP on are the elements of `modes` (desktop first).
StoreOf(window, modes) ==
  [i \in RES_WINDOW..(RES_DESKTOP + Len(modes) - 1) |->
     IF i < RES_DESKTOP THEN WindowOf(window) ELSE modes[i - RES_DESKTOP + 1]]

SeqsUpTo(S, n) == UNION {[1..k -> S] : k \in 0..n}

Min(S) == CHOOSE x \in S : \A y \in S : x <= y

----------------------------------------------------------------------------
(* resSortPredicate and std::sort *)

resSortPredicate_NotEqualFlags(i, j) ==
     i.width < j.width
  \/ (i.width = j.width /\ i.height < j.height)
  \/ (i.width = j.width /\ i.height = j.height /\ i.flags # j.flags)

resSortPredicate_FlagsBeforeHeight(i, j) ==
     i.width < j.width
  \/ (i.width = j.width /\ i.flags < j.flags)
  \/ (i.width = j.width /\ i.flags = j.flags /\ i.height < j.height)

resSortPredicate(i, j) ==
     i.width < j.width
  \/ (i.width = j.width /\ i.height < j.height)
  \/ (i.width = j.width /\ i.height = j.height /\ i.flags < j.flags)

rrSortPredicate_Descending(i, j) == i.RefreshRate > j.RefreshRate

rrSortPredicate(i, j) == i.RefreshRate < j.RefreshRate

\* The comparator handed to std::sort, by name.
Compare(pred, i, j) ==
  IF pred = "resSortPredicate" THEN resSortPredicate(i, j) ELSE rrSortPredicate(i, j)

\* Insertion of x into s, moving x towards the front while it compares less
\* than the element before it.
RECURSIVE InsertSorted(_, _, _)
InsertSorted(s, x, pred) ==
  IF s = <<>> THEN <<x>>
  ELSE IF Compare(pred, x, s[Len(s)])
       THEN Append(InsertSorted(SubSeq(s, 1, Len(s) - 1), x, pred), s[Len(s)])
       ELSE Append(s, x)

RECURSIVE SortBy(_, _)
SortBy(s, pred) ==
  IF s = <<>> THEN <<>>
  ELSE InsertSorted(SortBy(SubSeq(s, 1, Len(s) - 1), pred), s[Len(s)], pred)

\* std::sort is not stable: elements that compare equivalent may come out in
\* any order.  Arrangements(base, ...) is every sequence that has, at each
\* position, some not yet placed element of base equivalent to base's own
\* element there.
RECURSIVE Arrangements(_, _, _, _)
Arrangements(base, left, k, pred) ==
  IF k > Len(base) THEN {<<>>}
  ELSE UNION { { <<base[p]>> \o t : t \in Arrangements(base, left \ {p}, k + 1, pred) } :
               p \in { q \in left : /\ ~Compare(pred, base[q], base[k])
                                    /\ ~Compare(pred, base[k], base[q]) } }

SortOutcomes(s, pred) ==
  LET base == SortBy(s, pred)
  IN  {base} \cup Arrangements(base, 1..Len(base), 1, pred)

\* The entries resSortPredicate is applied to: RESOLUTION_WHR values.
CmpEntries(index) ==
  [width : 0..MaxCmp, height : 0..MaxCmp, flags : 0..MaxCmp, ResInfo_Index : {index}]

\* resSortPredicate applied to every ordered pair of the three entries.
ApplyResSortPredicate ==
  /\ cmpIn # <<>>
  /\ cmpOut = <<>>
  /\ cmpOut' = [a \in 1..3 |-> [b \in 1..3 |-> resSortPredicate(cmpIn[a], cmpIn[b])]]
  /\ UNCHANGED <<hdrVars, storeVars, cmpIn, resVars, rrVars, drVars, loopVars>>

----------------------------------------------------------------------------
(* UpdateResolutions, InitWindowSystem and SetWindowResolution *)

\* The <<width, height>> SetWindowResolution is called with.
WindowSizes == { <<0, 0>>, <<0, 1>>, <<2, 1>> }

\* The RES_WINDOW record after UpdateResolutions.
UpdateResolutions_Window(window) ==
  LET iWidth == IF window.iWidth = 0 THEN 720 ELSE window.iWidth
      iHeight == IF window.iHeight = 0 THEN 480 ELSE window.iHeight
  IN  [window EXCEPT !.bFullScreen = FALSE,
                     !.iWidth = iWidth,
                     !.iHeight = iHeight,
                     !.iScreenWidth = iWidth,
                     !.iScreenHeight = iHeight,
                     !.iSubtitles = IF @ = 0 THEN Subtitles(iHeight) ELSE @,
                     !.fPixelRatio = 1,
                     !.strMode = "Windowed"]

\* The RES_WINDOW record after SetWindowResolution(width, height).  The
\* overscan ResetOverscan sets is no field of the record here.
SetWindowResolution_Window(window, width, height) ==
  [window EXCEPT !.iWidth = width,
                 !.iHeight = height,
                 !.iScreenWidth = width,
                 !.iScreenHeight = height,
                 !.iSubtitles = Subtitles(height)]

UpdateResolutions ==
  /\ m_resolutions' = [m_resolutions EXCEPT ![RES_WINDOW] = UpdateResolutions_Window(@)]
  /\ UNCHANGED <<hdrVars, sortVars, resVars, rrVars, drVars, loopVars>>

\* InitWindowSystem: UpdateResolutions(), then ApplyCalibrations() of
\* CDisplaySettings, which writes none of the fields of the records here.
InitWindowSystem ==
  /\ m_resolutions' = [m_resolutions EXCEPT ![RES_WINDOW] = UpdateResolutions_Window(@)]
  /\ UNCHANGED <<hdrVars, sortVars, resVars, rrVars, drVars, loopVars>>

SetWindowResolution(width, height) ==
  /\ m_resolutions' =
       [m_resolutions EXCEPT ![RES_WINDOW] = SetWindowResolution_Window(@, width, height)]
  /\ UNCHANGED <<hdrVars, sortVars, resVars, rrVars, drVars, loopVars>>

----------------------------------------------------------------------------
(* AddResolution and ScreenResolutions *)

\* AddResolution with a scan that starts at position `first` of the sequence,
\* leaves the fields named in `ignored` out of the comparison and takes a
\* matching record's index only if `replaces`.
AddResolution_Variant(res, addindex, bestRefreshrate, first, ignored, replaces) ==
  LET resInfo == GetResolutionInfo(addindex)
      width == resInfo.iScreenWidth
      height == resInfo.iScreenHeight
      flags == BitAnd(resInfo.dwFlags, D3DPRESENTFLAG_MODEMASK)
      refreshrate == resInfo.fRefreshRate
      hits == { p \in first..Len(res) :
                  /\ res[p].width = width
                  /\ "height" \in ignored \/ res[p].height = height
                  /\ \/ "flags" \in ignored
                     \/ BitAnd(res[p].flags, D3DPRESENTFLAG_MODEMASK) = flags }
  IN  IF hits # {}
      THEN IF replaces /\ bestRefreshrate > 0 /\ refreshrate = bestRefreshrate
           THEN [res EXCEPT ![Min(hits)].ResInfo_Index = addindex]
           ELSE res
      ELSE Append(res, [width |-> width, height |-> height, flags |-> flags,
                        ResInfo_Index |-> addindex])

AddResolution_IgnoreFlags(res, addindex, bestRefreshrate) ==
  AddResolution_Variant(res, addindex, bestRefreshrate, 2, {"flags"}, TRUE)

AddResolution_IgnoreHeight(res, addindex, bestRefreshrate) ==
  AddResolution_Variant(res, addindex, bestRefreshrate, 2, {"height"}, TRUE)

AddResolution_ScanFromFirst(res, addindex, bestRefreshrate) ==
  AddResolution_Variant(res, addindex, bestRefreshrate, 1, {}, TRUE)

AddResolution_ScanFromThird(res, addindex, bestRefreshrate) ==
  AddResolution_Variant(res, addindex, bestRefreshrate, 3, {}, TRUE)

AddResolution_NeverReplace(res, addindex, bestRefreshrate) ==
  AddResolution_Variant(res, addindex, bestRefreshrate, 2, {}, FALSE)

\* The vector after AddResolution(resolutions, addindex, bestRefreshrate).
\* The scan "for idx = 1" starts at the second element: sequence position 2.
AddResolution(res, addindex, bestRefreshrate) ==
  LET resInfo == GetResolutionInfo(addindex)
      width == resInfo.iScreenWidth
      height == resInfo.iScreenHeight
      flags == BitAnd(resInfo.dwFlags, D3DPRESENTFLAG_MODEMASK)
      refreshrate == resInfo.fRefreshRate
      hits == { p \in 2..Len(res) :
                  /\ res[p].width = width
                  /\ res[p].height = height
                  /\ BitAnd(res[p].flags, D3DPRESENTFLAG_MODEMASK) = flags }
  IN  IF hits # {}
      THEN IF bestRefreshrate > 0 /\ refreshrate = bestRefreshrate
           THEN [res EXCEPT ![Min(hits)].ResInfo_Index = addindex]
           ELSE res
      ELSE Append(res, [width |-> width, height |-> height, flags |-> flags,
                        ResInfo_Index |-> addindex])

\* One iteration of the loop of ScreenResolutions.
ScreenResolutions_Loop ==
  /\ srPc = "loop"
  /\ srIdx < ResolutionInfoSize
  /\ resolutions' = AddResolution(resolutions, srIdx, srRate)
  /\ srIdx' = srIdx + 1
  /\ UNCHANGED <<hdrVars, storeVars, sortVars, srPc, srRate, srUnsorted, srAgain, rrVars, drVars,
               loopVars>>

\* The loop is over: sort and return.
ScreenResolutions_SortReturn ==
  /\ srPc = "loop"
  /\ srIdx >= ResolutionInfoSize
  /\ resolutions' \in SortOutcomes(resolutions, "resSortPredicate")
  /\ srUnsorted' = resolutions
  /\ srPc' = "done"
  /\ UNCHANGED <<hdrVars, storeVars, sortVars, srIdx, srRate, srAgain, rrVars, drVars, loopVars>>

\* The AddResolution calls of the loop of ScreenResolutions, made for the
\* records `indices` names, in that order, on the vector `res`.
RECURSIVE AddResolutions(_, _, _)
AddResolutions(res, indices, bestRefreshrate) ==
  IF indices = <<>> THEN res
  ELSE AddResolutions(AddResolution(res, Head(indices), bestRefreshrate),
                      Tail(indices), bestRefreshrate)

\* ScreenResolutions run again, with the same preferred rate, on the records
\* the entries of the vector it returned name, in the order it returned them:
\* the AddResolution calls start from an empty vector, so the record of the
\* first returned entry is the one the scan never compares with, and the
\* result is sorted as before.
ScreenResolutions_ScanAgain ==
  /\ srPc = "done"
  /\ srAgain' \in SortOutcomes(
                    AddResolutions(<<>>, [p \in 1..Len(resolutions) |->
                                           resolutions[p].ResInfo_Index], srRate),
                    "resSortPredicate")
  /\ srPc' = "again"
  /\ UNCHANGED <<hdrVars, storeVars, sortVars, srIdx, srRate, resolutions, srUnsorted, rrVars,
                 drVars, loopVars>>

----------------------------------------------------------------------------
(* AddRefreshRate and RefreshRates *)

AddRefreshRate_LastWins(rr, addindex) ==
  LET RefreshRate == GetResolutionInfo(addindex).fRefreshRate
      hits == { p \in 1..Len(rr) : rr[p].RefreshRate = RefreshRate }
  IN  IF hits # {}
      THEN [rr EXCEPT ![Min(hits)].ResInfo_Index = addindex]
      ELSE Append(rr, [RefreshRate |-> RefreshRate, ResInfo_Index |-> addindex])

\* The vector after AddRefreshRate(refreshrates, addindex).
AddRefreshRate(rr, addindex) ==
  LET RefreshRate == GetResolutionInfo(addindex).fRefreshRate
  IN  IF \E p \in 1..Len(rr) : rr[p].RefreshRate = RefreshRate
      THEN rr
      ELSE Append(rr, [RefreshRate |-> RefreshRate, ResInfo_Index |-> addindex])

\* The condition of the if statement in the loop of RefreshRates.
RefreshRates_Matches(idx, width, height, dwFlags) ==
  /\ GetResolutionInfo(idx).iScreenWidth = width
  /\ GetResolutionInfo(idx).iScreenHeight = height
  /\ BitAnd(GetResolutionInfo(idx).dwFlags, D3DPRESENTFLAG_MODEMASK)
       = BitAnd(dwFlags, D3DPRESENTFLAG_MODEMASK)

\* One iteration of the loop of RefreshRates.
RefreshRates_Loop ==
  /\ rrPc = "loop"
  /\ rrIdx < ResolutionInfoSize
  /\ refreshrates' =
       IF RefreshRates_Matches(rrIdx, rrArgs[1], rrArgs[2], rrArgs[3])
       THEN AddRefreshRate(refreshrates, rrIdx)
       ELSE refreshrates
  /\ rrIdx' = rrIdx + 1
  /\ UNCHANGED <<hdrVars, storeVars, sortVars, resVars, rrPc, rrArgs, rrUnsorted, drVars, loopVars>>

\* The loop is over: sort and return.
RefreshRates_SortReturn ==
  /\ rrPc = "loop"
  /\ rrIdx >= ResolutionInfoSize
  /\ refreshrates' \in SortOutcomes(refreshrates, "rrSortPredicate")
  /\ rrUnsorted' = refreshrates
  /\ rrPc' = "done"
  /\ UNCHANGED <<hdrVars, storeVars, sortVars, resVars, rrIdx, rrArgs, drVars, loopVars>>

----------------------------------------------------------------------------
(* DefaultRefreshRate *)

Fabs(x) == IF x < 0 THEN -x ELSE x

\* What reading rates[0] of an empty vector may produce, when it does not
\* crash: whatever the memory holds, a stale element of the vector included.
\* Every REFRESHRATE with a rate 0..MaxFps and an index up to the largest a
\* vector of MaxRates entries names.
REFRESHRATE_Garbage ==
  [RefreshRate : 0..MaxFps, ResInfo_Index : 0..(RES_DESKTOP + MaxRates - 1)]

DefaultRefreshRate_Better_OrEqual(fitness, best) == best < 0 \/ fitness <= best

\* The condition "bestfitness < 0 || fitness < bestfitness".
DefaultRefreshRate_Better(fitness, best) == best < 0 \/ fitness < best

\* "REFRESHRATE bestmatch = rates[0]": with rates empty the read is out of
\* range, and the call either crashes or goes on with whatever was read.
DefaultRefreshRate_Entry ==
  /\ drPc = "entry"
  /\ IF rates # <<>>
     THEN /\ bestmatch' = rates[1]
          /\ drPc' = "loop"
          /\ UNCHANGED drOutOfRange
     ELSE /\ drOutOfRange' = TRUE
          /\ \E outcome \in {"read", "crashed"} :
               IF outcome = "read"
               THEN drPc' = "loop" /\ bestmatch' \in REFRESHRATE_Garbage
               ELSE drPc' = "crashed" /\ UNCHANGED bestmatch
  /\ bestfitness' = -1
  /\ drI' = 0
  /\ UNCHANGED <<hdrVars, storeVars, sortVars, resVars, rrVars, rates, loopVars>>

\* One iteration of the loop "for (i = 0; i < rates.size(); i++)".
DefaultRefreshRate_Loop ==
  /\ drPc = "loop"
  /\ drI < Len(rates)
  /\ LET targetfps == GetResolutionInfo(RES_DESKTOP).fRefreshRate
         fitness == Fabs(targetfps - rates[drI + 1].RefreshRate)
     IN  IF DefaultRefreshRate_Better(fitness, bestfitness)
         THEN /\ bestfitness' = fitness
              /\ bestmatch' = rates[drI + 1]
              /\ IF fitness = 0
                 THEN drPc' = "done" /\ UNCHANGED drI
                 ELSE drI' = drI + 1 /\ UNCHANGED drPc
         ELSE /\ drI' = drI + 1
              /\ UNCHANGED <<hdrVars, bestfitness, bestmatch, drPc>>
  /\ UNCHANGED <<hdrVars, storeVars, sortVars, resVars, rrVars, rates, drOutOfRange, loopVars>>

\* The loop ran to the end: return bestmatch.
DefaultRefreshRate_Return ==
  /\ drPc = "loop"
  /\ drI >= Len(rates)
  /\ drPc' = "done"
  /\ UNCHANGED <<hdrVars, storeVars, sortVars, resVars, rrVars, rates, drI, bestmatch,
                 bestfitness, drOutOfRange, loopVars>>

----------------------------------------------------------------------------
(* RegisterRenderLoop, UnregisterRenderLoop, DriveRenderLoop *)

RenderThread == 1
Threads == 1..(1 + MaxMutators)
Clients == 1..MaxClients

\* Reference sequence model of the participant list.
RefRegister(s, c) == s \o <<c>>
RefUnregister(s, c) ==
  IF \A p \in 1..Len(s) : s[p] # c THEN s
  ELSE LET k == Min({ p \in 1..Len(s) : s[p] = c })
       IN  SubSeq(s, 1, k - 1) \o SubSeq(s, k + 1, Len(s))

Find_Last(s, c, i) ==
  IF \E p \in i..Len(s) : s[p] = c
  THEN CHOOSE p \in i..Len(s) : s[p] = c /\ \A q \in (p + 1)..Len(s) : s[q] # c
  ELSE Len(s) + 1

\* std::find from position i: the first position holding c, or end()
\* (Len(s) + 1).
RECURSIVE Find(_, _, _)
Find(s, c, i) ==
  IF i > Len(s) THEN Len(s) + 1
  ELSE IF s[i] = c THEN i ELSE Find(s, c, i + 1)

\* vector::erase(i): the elements after position i move one to the front.
Erase(s, i) == [k \in 1..(Len(s) - 1) |-> IF k < i THEN s[k] ELSE s[k + 1]]

Advance_Skip(i) == i + 2

\* "++i" of the loop of DriveRenderLoop.
Advance(i) == i + 1

RegisterRenderLoop_NoLock(t, client) ==
  /\ thPc[t] = "idle"
  /\ Len(m_renderLoopClients) < MaxListLen
  /\ thPc' = [thPc EXCEPT ![t] = "register"]
  /\ thArg' = [thArg EXCEPT ![t] = client]
  /\ UNCHANGED <<hdrVars, storeVars, sortVars, resVars, rrVars, drVars, m_renderLoopClients,
                 m_renderLoopSection, thIt, drvIt, tickLog, refClients>>

\* CSingleLock lock(m_renderLoopSection) of thread t: waits until the
\* section is free.
RegisterRenderLoop_Lock(t, client) ==
  /\ thPc[t] = "idle"
  /\ m_renderLoopSection = 0
  /\ Len(m_renderLoopClients) < MaxListLen
  /\ m_renderLoopSection' = t
  /\ thPc' = [thPc EXCEPT ![t] = "register"]
  /\ thArg' = [thArg EXCEPT ![t] = client]
  /\ UNCHANGED <<hdrVars, storeVars, sortVars, resVars, rrVars, drVars, m_renderLoopClients,
                 thIt, drvIt, tickLog, refClients>>

\* m_renderLoopClients.push_back(client).
RegisterRenderLoop_PushBack(t) ==
  /\ thPc[t] = "register"
  /\ m_renderLoopClients' = Append(m_renderLoopClients, thArg[t])
  /\ thPc' = [thPc EXCEPT ![t] = "registered"]
  /\ refClients' = RefRegister(refClients, thArg[t])
  /\ UNCHANGED <<hdrVars, storeVars, sortVars, resVars, rrVars, drVars, m_renderLoopSection,
                 thArg, thIt, drvIt, tickLog>>

\* RegisterRenderLoop returns: the lock is released.
RegisterRenderLoop_Return(t) ==
  /\ thPc[t] = "registered"
  /\ m_renderLoopSection' = 0
  /\ thPc' = [thPc EXCEPT ![t] = "idle"]
  /\ thArg' = [thArg EXCEPT ![t] = 0]
  /\ UNCHANGED <<hdrVars, storeVars, sortVars, resVars, rrVars, drVars, m_renderLoopClients,
                 thIt, drvIt, tickLog, refClients>>

UnregisterRenderLoop_Lock(t, client) ==
  /\ thPc[t] = "idle"
  /\ m_renderLoopSection = 0
  /\ m_renderLoopSection' = t
  /\ thPc' = [thPc EXCEPT ![t] = "unregister"]
  /\ thArg' = [thArg EXCEPT ![t] = client]
  /\ UNCHANGED <<hdrVars, storeVars, sortVars, resVars, rrVars, drVars, m_renderLoopClients,
                 thIt, drvIt, tickLog, refClients>>

\* i = find(begin(), end(), client); if (i != end()) erase(i).
UnregisterRenderLoop_Erase(t) ==
  /\ thPc[t] = "unregister"
  /\ LET i == Find(m_renderLoopClients, thArg[t], 1)
     IN  /\ thIt' = [thIt EXCEPT ![t] = i]
         /\ m_renderLoopClients' =
              IF i # Len(m_renderLoopClients) + 1
              THEN Erase(m_renderLoopClients, i)
              ELSE m_renderLoopClients
  /\ thPc' = [thPc EXCEPT ![t] = "erased"]
  /\ refClients' = RefUnregister(refClients, thArg[t])
  /\ UNCHANGED <<hdrVars, storeVars, sortVars, resVars, rrVars, drVars, m_renderLoopSection,
                 thArg, drvIt, tickLog>>

\* UnregisterRenderLoop returns: the lock is released.
UnregisterRenderLoop_Return(t) ==
  /\ thPc[t] = "erased"
  /\ m_renderLoopSection' = 0
  /\ thPc' = [thPc EXCEPT ![t] = "idle"]
  /\ thArg' = [thArg EXCEPT ![t] = 0]
  /\ thIt' = [thIt EXCEPT ![t] = 0]
  /\ UNCHANGED <<hdrVars, storeVars, sortVars, resVars, rrVars, drVars, m_renderLoopClients,
                 drvIt, tickLog, refClients>>

\* MessagePump(), the first statement of DriveRenderLoop.
DriveRenderLoop_MessagePump ==
  /\ thPc[RenderThread] = "idle"
  /\ thPc' = [thPc EXCEPT ![RenderThread] = "pumped"]
  /\ tickLog' = << <<"MessagePump", 0>> >>
  /\ UNCHANGED <<hdrVars, storeVars, sortVars, resVars, rrVars, drVars, m_renderLoopClients,
                 m_renderLoopSection, thArg, thIt, drvIt, refClients>>

DriveRenderLoop_NoLock ==
  /\ thPc[RenderThread] = "pumped"
  /\ thPc' = [thPc EXCEPT ![RenderThread] = "driving"]
  /\ drvIt' = 1
  /\ UNCHANGED <<hdrVars, storeVars, sortVars, resVars, rrVars, drVars, m_renderLoopClients,
                 m_renderLoopSection, thArg, thIt, tickLog, refClients>>

\* CSingleLock lock(m_renderLoopSection); i = m_renderLoopClients.begin().
DriveRenderLoop_Lock ==
  /\ thPc[RenderThread] = "pumped"
  /\ m_renderLoopSection = 0
  /\ m_renderLoopSection' = RenderThread
  /\ thPc' = [thPc EXCEPT ![RenderThread] = "driving"]
  /\ drvIt' = 1
  /\ UNCHANGED <<hdrVars, storeVars, sortVars, resVars, rrVars, drVars, m_renderLoopClients,
                 thArg, thIt, tickLog, refClients>>

\* i != end(): (*i)->FrameMove() is entered.  What FrameMove does is the
\* participant's business and no part of WinSystem.cpp: it is taken not to
\* call back into the registry.
DriveRenderLoop_FrameMoveCall ==
  /\ thPc[RenderThread] = "driving"
  /\ drvIt <= Len(m_renderLoopClients)
  /\ thPc' = [thPc EXCEPT ![RenderThread] = "framemove"]
  /\ tickLog' = Append(tickLog, <<"FrameMove", m_renderLoopClients[drvIt]>>)
  /\ UNCHANGED <<hdrVars, storeVars, sortVars, resVars, rrVars, drVars, m_renderLoopClients,
                 m_renderLoopSection, thArg, thIt, drvIt, refClients>>

\* FrameMove() returned; ++i.
DriveRenderLoop_FrameMoveReturn ==
  /\ thPc[RenderThread] = "framemove"
  /\ thPc' = [thPc EXCEPT ![RenderThread] = "driving"]
  /\ drvIt' = Advance(drvIt)
  /\ UNCHANGED <<hdrVars, storeVars, sortVars, resVars, rrVars, drVars, m_renderLoopClients,
                 m_renderLoopSection, thArg, thIt, tickLog, refClients>>

\* i == end(): the block ends, the lock is released and the call returns.
DriveRenderLoop_Unlock ==
  /\ thPc[RenderThread] = "driving"
  /\ drvIt > Len(m_renderLoopClients)
  /\ m_renderLoopSection' = 0
  /\ thPc' = [thPc EXCEPT ![RenderThread] = "idle"]
  /\ drvIt' = 0
  /\ tickLog' = <<>>
  /\ UNCHANGED <<hdrVars, storeVars, sortVars, resVars, rrVars, drVars, m_renderLoopClients,
                 thArg, thIt, refClients>>

----------------------------------------------------------------------------
(* GetHDRDisplayStatus, IsDisplayHDREnabled and ToggleWindowsHDR *)

\* The bytes the platform may report in request[20]: 0xD0 .. 0xD3, of which
\* 0xD2 is none of the three the code knows.
HDRCodes == xD0..xD3

\* The steps of the query both functions make, in order; each can fail, and
\* the steps after a failed one are not made.
HDRFailures ==
  { "none", "GetDisplayConfigBufferSizes", "malloc", "QueryDisplayConfig",
    "DisplayConfigGetDeviceInfo" }

\* The text CLog::LogF gets for the local txDeviceInfo: the call is made
\* only "if (CServiceBroker::IsServiceManagerUp())".
GetHDRDisplayStatus_Log(up, text) == IF up THEN text ELSE ""

GetHDRDisplayStatus_InitOn(failed, code, up) ==
  IF failed # "none" THEN [status |-> 2, txDeviceInfo |-> "", logged |-> ""]
  ELSE IF code = xD0
  THEN [status |-> 0, txDeviceInfo |-> "No HDR capable",
        logged |-> GetHDRDisplayStatus_Log(up, "No HDR capable")]
  ELSE IF code = xD1
  THEN [status |-> 1, txDeviceInfo |-> "HDR capable and OFF",
        logged |-> GetHDRDisplayStatus_Log(up, "HDR capable and OFF")]
  ELSE IF code = xD3
  THEN [status |-> 2, txDeviceInfo |-> "HDR capable and ON",
        logged |-> GetHDRDisplayStatus_Log(up, "HDR capable and ON")]
  ELSE [status |-> 0, txDeviceInfo |-> "UNKNOWN",
        logged |-> GetHDRDisplayStatus_Log(up, "UNKNOWN")]

GetHDRDisplayStatus_DefaultOff(failed, code, up) ==
  IF failed # "none" THEN [status |-> 0, txDeviceInfo |-> "", logged |-> ""]
  ELSE IF code = xD0
  THEN [status |-> 0, txDeviceInfo |-> "No HDR capable",
        logged |-> GetHDRDisplayStatus_Log(up, "No HDR capable")]
  ELSE IF code = xD3
  THEN [status |-> 2, txDeviceInfo |-> "HDR capable and ON",
        logged |-> GetHDRDisplayStatus_Log(up, "HDR capable and ON")]
  ELSE [status |-> 1, txDeviceInfo |-> "HDR capable and OFF",
        logged |-> GetHDRDisplayStatus_Log(up, "HDR capable and OFF")]

\* What GetHDRDisplayStatus returns, leaves in txDeviceInfo and logs when the
\* step `failed` of its query fails, the platform would report `code` and the
\* service manager is up or not.  "int status = 0" is returned as it is
\* unless DisplayConfigGetDeviceInfo succeeded.
GetHDRDisplayStatus(failed, code, up) ==
  IF failed # "none" THEN [status |-> 0, txDeviceInfo |-> "", logged |-> ""]
  ELSE IF code = xD0
  THEN [status |-> 0, txDeviceInfo |-> "No HDR capable",
        logged |-> GetHDRDisplayStatus_Log(up, "No HDR capable")]
  ELSE IF code = xD1
  THEN [status |-> 1, txDeviceInfo |-> "HDR capable and OFF",
        logged |-> GetHDRDisplayStatus_Log(up, "HDR capable and OFF")]
  ELSE IF code = xD3
  THEN [status |-> 2, txDeviceInfo |-> "HDR capable and ON",
        logged |-> GetHDRDisplayStatus_Log(up, "HDR capable and ON")]
  ELSE [status |-> 0, txDeviceInfo |-> "UNKNOWN",
        logged |-> GetHDRDisplayStatus_Log(up, "UNKNOWN")]

IsDisplayHDREnabled(failed, code, up) == GetHDRDisplayStatus(failed, code, up).status = 2

ToggleWindowsHDR_Requests_AlwaysOn(failed, code) ==
  IF failed # "none" THEN <<>>
  ELSE IF code = xD1 \/ code = xD3 THEN <<1>>
  ELSE <<>>

\* The values of set[20] ToggleWindowsHDR hands to DisplayConfigSetDeviceInfo,
\* in order.
ToggleWindowsHDR_Requests(failed, code) ==
  IF failed # "none" THEN <<>>
  ELSE IF code = xD1 THEN <<1>>
  ELSE IF code = xD3 THEN <<0>>
  ELSE <<>>

\* The platform's state after a set request with set[20] = set20: HDR on for
\* 1, off for 0 if the platform applies the request, as before if it does not
\* (the code does not look at what the call returns).
DisplayConfigSetDeviceInfo(code, set20, applied) ==
  IF ~applied THEN code
  ELSE IF set20 = 1 THEN xD3 ELSE xD1

GetHDRDisplayStatus_Call ==
  \E failed \in HDRFailures, up \in BOOLEAN :
    /\ hdrOp' = "GetHDRDisplayStatus"
    /\ hdrFailed' = failed
    /\ hdrServiceUp' = up
    /\ status' = GetHDRDisplayStatus(failed, hdrCode, up).status
    /\ txDeviceInfo' = GetHDRDisplayStatus(failed, hdrCode, up).txDeviceInfo
    /\ hdrLogged' = GetHDRDisplayStatus(failed, hdrCode, up).logged
    /\ UNCHANGED <<storeVars, sortVars, resVars, rrVars, drVars, loopVars, hdrCode,
                   hdrEnabled, hdrLog>>

IsDisplayHDREnabled_Call ==
  \E failed \in HDRFailures, up \in BOOLEAN :
    /\ hdrOp' = "IsDisplayHDREnabled"
    /\ hdrFailed' = failed
    /\ hdrServiceUp' = up
    /\ status' = GetHDRDisplayStatus(failed, hdrCode, up).status
    /\ txDeviceInfo' = GetHDRDisplayStatus(failed, hdrCode, up).txDeviceInfo
    /\ hdrLogged' = GetHDRDisplayStatus(failed, hdrCode, up).logged
    /\ hdrEnabled' = IsDisplayHDREnabled(failed, hdrCode, up)
    /\ UNCHANGED <<storeVars, sortVars, resVars, rrVars, drVars, loopVars, hdrCode,
                   hdrLog>>

ToggleWindowsHDR_Call ==
  /\ Len(hdrLog) < MaxToggles
  /\ \E failed \in HDRFailures :
       LET requests == ToggleWindowsHDR_Requests(failed, hdrCode)
       IN  \E applied \in (IF requests = <<>> THEN {TRUE} ELSE BOOLEAN) :
             LET after == IF requests = <<>> THEN hdrCode
                          ELSE DisplayConfigSetDeviceInfo(hdrCode, requests[1], applied)
             IN  /\ hdrOp' = "ToggleWindowsHDR"
                 /\ hdrFailed' = failed
                 /\ hdrCode' = after
                 /\ hdrLog' = Append(hdrLog, [before |-> hdrCode, failed |-> failed,
                                              requests |-> requests,
                                              applied |-> applied, after |-> after])
                 /\ UNCHANGED <<storeVars, sortVars, resVars, rrVars, drVars, loopVars,
                                status, txDeviceInfo, hdrServiceUp, hdrLogged,
                                hdrEnabled>>

----------------------------------------------------------------------------
(* Specifications *)

\* A fixed record for the store positions an operation never reads.
AnyInfo == [iScreenWidth |-> 1, iScreenHeight |-> 1, dwFlags |-> 0, fRefreshRate |-> 1]

IdleSort == cmpIn = <<>> /\ cmpOut = <<>>
IdleRes ==
  /\ srPc = "idle" /\ srIdx = 0 /\ srRate = 0 /\ resolutions = <<>>
  /\ srUnsorted = <<>> /\ srAgain = <<>>
IdleRR ==
  rrPc = "idle" /\ rrIdx = 0 /\ rrArgs = <<>> /\ refreshrates = <<>> /\ rrUnsorted = <<>>
IdleDR ==
  /\ drPc = "idle" /\ rates = <<>> /\ drI = 0 /\ bestmatch = <<>>
  /\ bestfitness = 0 /\ drOutOfRange = FALSE
IdleLoop ==
  /\ m_renderLoopClients = <<>> /\ m_renderLoopSection = 0
  /\ thPc = [t \in Threads |-> "idle"] /\ thArg = [t \in Threads |-> 0]
  /\ thIt = [t \in Threads |-> 0]
  /\ drvIt = 0 /\ tickLog = <<>> /\ refClients = <<>>
IdleHDR ==
  /\ hdrCode = xD0 /\ hdrOp = "none" /\ hdrFailed = "none" /\ status = 0
  /\ txDeviceInfo = "" /\ hdrServiceUp = FALSE /\ hdrLogged = ""
  /\ hdrEnabled = FALSE /\ hdrLog = <<>>

InitRes ==
  /\ \E custom \in SeqsUpTo(RESOLUTION_INFO, MaxModes) :
       m_resolutions = StoreOf(AnyInfo, <<AnyInfo>> \o custom)
  /\ srRate \in PreferredRates
  /\ srPc = "loop"
  /\ srIdx = RES_CUSTOM
  /\ resolutions = <<>>
  /\ srUnsorted = <<>>
  /\ srAgain = <<>>
  /\ IdleSort /\ IdleRR /\ IdleDR /\ IdleLoop /\ IdleHDR

NextRes == ScreenResolutions_Loop \/ ScreenResolutions_SortReturn

SpecRes == InitRes /\ [][NextRes]_vars

\* ScreenResolutions on every store of up to MaxModes custom records whose
\* keys are ScanKeys, and ScreenResolutions run again on what its result names.
InitScan ==
  /\ \E custom \in SeqsUpTo({ r \in RESOLUTION_INFO :
                                <<r.iScreenWidth, r.iScreenHeight, r.dwFlags>> \in ScanKeys },
                             MaxModes) :
       m_resolutions = StoreOf(AnyInfo, <<AnyInfo>> \o custom)
  /\ srRate \in PreferredRates
  /\ srPc = "loop"
  /\ srIdx = RES_CUSTOM
  /\ resolutions = <<>>
  /\ srUnsorted = <<>>
  /\ srAgain = <<>>
  /\ IdleSort /\ IdleRR /\ IdleDR /\ IdleLoop /\ IdleHDR

NextScan ==
  \/ ScreenResolutions_Loop
  \/ ScreenResolutions_SortReturn
  \/ ScreenResolutions_ScanAgain

SpecScan == InitScan /\ [][NextScan]_vars

InitSort ==
  /\ cmpIn \in CmpEntries(RES_CUSTOM) \X CmpEntries(RES_CUSTOM + 1) \X CmpEntries(RES_CUSTOM + 2)
  /\ cmpOut = <<>>
  /\ m_resolutions = StoreOf(AnyInfo, <<AnyInfo>>)
  /\ IdleRes /\ IdleRR /\ IdleDR /\ IdleLoop /\ IdleHDR

NextSort == ApplyResSortPredicate

SpecSort == InitSort /\ [][NextSort]_vars

\* Targets of RefreshRates: dwFlags with and without a bit outside the mask.
RRTargets == { <<1, 1, 0>>, <<1, 1, 2>> }

InitRR ==
  /\ \E window \in RESOLUTION_INFO, desktop \in RESOLUTION_INFO,
        custom \in SeqsUpTo(RESOLUTION_INFO, MaxRRModes) :
       m_resolutions = StoreOf(window, <<desktop>> \o custom)
  /\ rrArgs \in RRTargets
  /\ rrPc = "loop"
  /\ rrIdx = RES_DESKTOP
  /\ refreshrates = <<>>
  /\ rrUnsorted = <<>>
  /\ IdleSort /\ IdleRes /\ IdleDR /\ IdleLoop /\ IdleHDR

NextRR == RefreshRates_Loop \/ RefreshRates_SortReturn

SpecRR == InitRR /\ [][NextRR]_vars

\* The vector handed to DefaultRefreshRate: entry k names record RES_DESKTOP + k - 1.
RateVectors ==
  { [k \in 1..Len(fps) |-> [RefreshRate |-> fps[k], ResInfo_Index |-> RES_DESKTOP + k - 1]] :
      fps \in SeqsUpTo(0..MaxFps, MaxRates) }

InitDR ==
  /\ \E targetfps \in 0..MaxFps :
       m_resolutions = StoreOf(AnyInfo, <<[AnyInfo EXCEPT !.fRefreshRate = targetfps]>>)
  /\ rates \in RateVectors
  /\ drPc = "entry"
  /\ drI = 0
  /\ bestmatch = <<>>
  /\ bestfitness = 0
  /\ drOutOfRange = FALSE
  /\ IdleSort /\ IdleRes /\ IdleRR /\ IdleLoop /\ IdleHDR

\* DefaultRefreshRate, and at any time the calls that write the RES_WINDOW
\* record of the store it reads the RES_DESKTOP record of.
NextDR ==
  \/ DefaultRefreshRate_Entry
  \/ DefaultRefreshRate_Loop
  \/ DefaultRefreshRate_Return
  \/ UpdateResolutions
  \/ InitWindowSystem
  \/ \E size \in WindowSizes : SetWindowResolution(size[1], size[2])

SpecDR == InitDR /\ [][NextDR]_vars

\* The registry as constructed: no participant, the section free.
InitLoop ==
  /\ IdleLoop
  /\ m_resolutions = StoreOf(AnyInfo, <<AnyInfo>>)
  /\ IdleSort /\ IdleRes /\ IdleRR /\ IdleDR /\ IdleHDR

NextLoop ==
  \/ \E t \in Threads, c \in Clients : RegisterRenderLoop_Lock(t, c)
  \/ \E t \in Threads : RegisterRenderLoop_PushBack(t)
  \/ \E t \in Threads : RegisterRenderLoop_Return(t)
  \/ \E t \in Threads, c \in Clients : UnregisterRenderLoop_Lock(t, c)
  \/ \E t \in Threads : UnregisterRenderLoop_Erase(t)
  \/ \E t \in Threads : UnregisterRenderLoop_Return(t)
  \/ DriveRenderLoop_MessagePump
  \/ DriveRenderLoop_Lock
  \/ DriveRenderLoop_FrameMoveCall
  \/ DriveRenderLoop_FrameMoveReturn
  \/ DriveRenderLoop_Unlock

SpecLoop == InitLoop /\ [][NextLoop]_vars

\* Any display state; GetHDRDisplayStatus, IsDisplayHDREnabled and
\* ToggleWindowsHDR are called in any order, each platform call of each
\* succeeding or failing.
InitHDR ==
  /\ hdrCode \in HDRCodes
  /\ hdrOp = "none" /\ hdrFailed = "none" /\ status = 0
  /\ txDeviceInfo = "" /\ hdrServiceUp = FALSE /\ hdrLogged = ""
  /\ hdrEnabled = FALSE /\ hdrLog = <<>>
  /\ m_resolutions = StoreOf(AnyInfo, <<AnyInfo>>)
  /\ IdleSort /\ IdleRes /\ IdleRR /\ IdleDR /\ IdleLoop

NextHDR ==
  \/ GetHDRDisplayStatus_Call
  \/ IsDisplayHDREnabled_Call
  \/ ToggleWindowsHDR_Call

SpecHDR == InitHDR /\ [][NextHDR]_vars

----------------------------------------------------------------------------
(* Claims about the comparator *)

CmpLess(a, b) == cmpOut[a][b]
CmpEquiv(a, b) == ~cmpOut[a][b] /\ ~cmpOut[b][a]
CmpSameKey(a, b) ==
  /\ cmpIn[a].width = cmpIn[b].width
  /\ cmpIn[a].height = cmpIn[b].height
  /\ cmpIn[a].flags = cmpIn[b].flags

\* C1: resSortPredicate is a strict weak ordering on (width, height, flags):
\* irreflexive, asymmetric, transitive, with a transitive equivalence that
\* holds exactly for equal width, height and flags; for every pair exactly
\* one of less, greater, equivalent holds.
C1_StrictWeakOrdering ==
  cmpOut # <<>> =>
    \A a, b, c \in 1..3 :
      /\ ~CmpLess(a, a)
      /\ CmpLess(a, b) => ~CmpLess(b, a)
      /\ (CmpLess(a, b) /\ CmpLess(b, c)) => CmpLess(a, c)
      /\ (CmpEquiv(a, b) /\ CmpEquiv(b, c)) => CmpEquiv(a, c)
      /\ CmpEquiv(a, b) <=> CmpSameKey(a, b)
      /\ Cardinality({ r \in {"less", "greater", "equivalent"} :
                         \/ r = "less" /\ CmpLess(a, b)
                         \/ r = "greater" /\ CmpLess(b, a)
                         \/ r = "equivalent" /\ CmpEquiv(a, b) }) = 1

\* The predicate was applied to two entries equal in all three fields and a
\* third that differs from them in the flags only.
C1_Witness ==
  /\ cmpOut # <<>>
  /\ CmpSameKey(1, 2)
  /\ cmpIn[2].width = cmpIn[3].width
  /\ cmpIn[2].height = cmpIn[3].height
  /\ cmpIn[2].flags > cmpIn[3].flags
  /\ CmpLess(3, 1)

----------------------------------------------------------------------------
(* Claims about ScreenResolutions *)

Key(e) == <<e.width, e.height, BitAnd(e.flags, D3DPRESENTFLAG_MODEMASK)>>

\* Position of an entry in the order width, then height, then masked flags.
Rank(e) ==
  (e.width * (D3DPRESENTFLAG_MODEMASK + 1) + e.height) * (D3DPRESENTFLAG_MODEMASK + 1)
    + BitAnd(e.flags, D3DPRESENTFLAG_MODEMASK)

Occurrences(s, e) == Cardinality({ p \in 1..Len(s) : s[p] = e })

SamePermutation(s, t) ==
  /\ Len(s) = Len(t)
  /\ \A p \in 1..Len(s) : Occurrences(s, s[p]) = Occurrences(t, s[p])

\* C2: the catalog returned by ScreenResolutions has at most one entry per
\* key (width, height, flags & mode mask).
C2_UniqueKeys ==
  srPc = "done" =>
    \A p, q \in 1..Len(resolutions) : Key(resolutions[p]) = Key(resolutions[q]) => p = q

\* C3: the list returned by ScreenResolutions is a permutation of the
\* deduplicated entries, ordered by width, then height, then masked flags
\* ascending: no entry is less than the entry before it.
C3_SortedPermutation ==
  srPc = "done" =>
    /\ SamePermutation(resolutions, srUnsorted)
    /\ \A p \in 1..(Len(resolutions) - 1) :
         Rank(resolutions[p]) <= Rank(resolutions[p + 1])

\* A returned list of three or more entries that the sort had to reorder.
C3_Witness ==
  /\ srPc = "done"
  /\ Len(resolutions) >= 3
  /\ resolutions # srUnsorted
  /\ resolutions[1] # srUnsorted[1]

----------------------------------------------------------------------------
(* Claims about DefaultRefreshRate *)

Distance(k) ==
  Fabs(GetResolutionInfo(RES_DESKTOP).fRefreshRate - rates[k].RefreshRate)

Nearest == { k \in 1..Len(rates) : \A j \in 1..Len(rates) : Distance(k) <= Distance(j) }

\* C4: for a non-empty vector DefaultRefreshRate returns the entry whose
\* distance |target - rate| is minimal over the whole vector, the first such
\* entry in iteration order; an entry equal to the target has distance 0.
C4_FirstNearest ==
  (drPc = "done" /\ rates # <<>>) => bestmatch = rates[Min(Nearest)]

\* A call returned the second of three entries, which ties with the third
\* and matches the target no better than inexactly.
C4_Witness ==
  /\ drPc = "done"
  /\ Len(rates) = 3
  /\ Nearest = {2, 3}
  /\ Distance(2) > 0
  /\ bestmatch = rates[2]

\* C5: called with an empty vector, DefaultRefreshRate fails with
\* InvalidArgument, returns no entry and reads no element of the vector.
C5_EmptyIsInvalidArgument ==
  (rates = <<>> /\ drPc \notin {"idle", "entry"}) =>
    (drPc = "InvalidArgument" /\ ~drOutOfRange)

----------------------------------------------------------------------------
(* Claims about RefreshRates *)

\* The records RefreshRates is to collect from: index at or above
\* RES_DESKTOP, same width, height and masked flags as the target.
Matching ==
  { k \in DOMAIN m_resolutions :
      /\ k >= RES_DESKTOP
      /\ <<m_resolutions[k].iScreenWidth, m_resolutions[k].iScreenHeight,
           BitAnd(m_resolutions[k].dwFlags, D3DPRESENTFLAG_MODEMASK)>>
         = <<rrArgs[1], rrArgs[2], BitAnd(rrArgs[3], D3DPRESENTFLAG_MODEMASK)>> }

MatchingWithRate(r) == { k \in Matching : m_resolutions[k].fRefreshRate = r }

\* C9: RefreshRates returns exactly one entry for each distinct refresh rate
\* among the matching records, carrying the index of the first matching
\* record with that rate; every entry comes from a matching record.
C9_OneEntryPerRate ==
  rrPc = "done" =>
    /\ \A k \in Matching :
         \E p \in 1..Len(refreshrates) :
           /\ refreshrates[p].RefreshRate = m_resolutions[k].fRefreshRate
           /\ refreshrates[p].ResInfo_Index = Min(MatchingWithRate(m_resolutions[k].fRefreshRate))
           /\ \A q \in 1..Len(refreshrates) :
                refreshrates[q].RefreshRate = refreshrates[p].RefreshRate => q = p
    /\ \A p \in 1..Len(refreshrates) :
         /\ refreshrates[p].ResInfo_Index \in Matching
         /\ refreshrates[p].RefreshRate = m_resolutions[refreshrates[p].ResInfo_Index].fRefreshRate

\* The RES_WINDOW record has the target's key and a rate no matching record
\* has, two matching records share a rate, and a record from RES_DESKTOP on
\* has another key.
C9_Witness ==
  /\ rrPc = "done"
  /\ <<m_resolutions[RES_WINDOW].iScreenWidth, m_resolutions[RES_WINDOW].iScreenHeight,
       BitAnd(m_resolutions[RES_WINDOW].dwFlags, D3DPRESENTFLAG_MODEMASK)>>
     = <<rrArgs[1], rrArgs[2], BitAnd(rrArgs[3], D3DPRESENTFLAG_MODEMASK)>>
  /\ MatchingWithRate(m_resolutions[RES_WINDOW].fRefreshRate) = {}
  /\ \E r \in Rates : Cardinality(MatchingWithRate(r)) >= 2
  /\ \E k \in DOMAIN m_resolutions : k >= RES_DESKTOP /\ k \notin Matching

\* C10 as stated: the entries come in scan order, an entry before another
\* exactly when the record that introduced it has the lower index.
C10_ScanOrder ==
  rrPc = "done" =>
    \A p, q \in 1..Len(refreshrates) :
      p < q <=> refreshrates[p].ResInfo_Index < refreshrates[q].ResInfo_Index

\* C10 amended: the entries collected in scan order are returned sorted by
\* refresh rate ascending: an entry comes before another exactly when its
\* refresh rate is the lower one.
C10_SortedByRate ==
  rrPc = "done" =>
    /\ SamePermutation(refreshrates, rrUnsorted)
    /\ \A p, q \in 1..Len(refreshrates) :
         p < q <=> refreshrates[p].RefreshRate < refreshrates[q].RefreshRate

\* The returned order differs from the scan order.
C10_Witness ==
  /\ rrPc = "done"
  /\ Len(refreshrates) >= 2
  /\ refreshrates # rrUnsorted
  /\ refreshrates[1].ResInfo_Index > refreshrates[2].ResInfo_Index

----------------------------------------------------------------------------
(* Claims about the render-loop registry *)

\* The participants driven so far by the current DriveRenderLoop call.
Driven == [p \in 1..(Len(tickLog) - 1) |-> tickLog[p + 1][2]]

PassOver == thPc[RenderThread] = "driving" /\ drvIt > Len(m_renderLoopClients)

\* C6: a call of DriveRenderLoop performs exactly one message-pump step,
\* before any participant is driven, and then invokes FrameMove once for each
\* entry of the participant list, in registration order.
C6_PumpThenDriveInOrder ==
  /\ tickLog # <<>> =>
       /\ tickLog[1][1] = "MessagePump"
       /\ \A p \in 2..Len(tickLog) : tickLog[p][1] = "FrameMove"
  /\ thPc[RenderThread] = "pumped" => Driven = <<>>
  /\ PassOver => Driven = m_renderLoopClients

\* A pass is over that drove a participant registered twice, with another
\* one registered in between.
C6_Witness ==
  /\ PassOver
  /\ Len(m_renderLoopClients) = 3
  /\ m_renderLoopClients[1] = m_renderLoopClients[3]
  /\ m_renderLoopClients[1] # m_renderLoopClients[2]
  /\ Len(tickLog) = 4

\* C7: after any sequence of RegisterRenderLoop and UnregisterRenderLoop
\* calls the participant list is that of the reference sequence model:
\* register appends, also when present; unregister removes the first
\* occurrence only and does nothing when there is none.
C7_MatchesReference == m_renderLoopClients = refClients

\* An UnregisterRenderLoop call has erased the first entry and is about to
\* return; the participant it was given is still registered once, behind
\* another one.
C7_Witness ==
  \E t \in Threads :
    /\ thPc[t] = "erased"
    /\ thIt[t] = 1
    /\ Len(m_renderLoopClients) = 2
    /\ m_renderLoopClients[1] # thArg[t]
    /\ m_renderLoopClients[2] = thArg[t]

\* C8 as stated: the render-loop lock is free in every state in which a
\* participant's FrameMove is running.
C8_LockFreeDuringFrameMove ==
  thPc[RenderThread] = "framemove" => m_renderLoopSection = 0

\* C8 amended: the render thread holds the render-loop lock during the
\* whole iteration of DriveRenderLoop, while each FrameMove is running
\* included; it does not hold it during the message-pump step.
C8_LockHeldDuringPass ==
  /\ thPc[RenderThread] \in {"driving", "framemove"} => m_renderLoopSection = RenderThread
  /\ thPc[RenderThread] = "pumped" => m_renderLoopSection # RenderThread

\* The FrameMove of the second participant of the list is running.
C8_Witness ==
  /\ thPc[RenderThread] = "framemove"
  /\ drvIt = 2
  /\ m_renderLoopSection = RenderThread

\* The render thread is between taking the lock of a pass and releasing it.
InPass == thPc[RenderThread] \in {"driving", "framemove"}

\* C17: while the render thread is in the iterate-and-drive pass no other
\* thread is inside RegisterRenderLoop or UnregisterRenderLoop and no step
\* changes the participant list, so the list is the one of the instant the
\* pass took the lock; the participants driven so far are its first entries
\* in order, and all of it when the pass is over.
C17_PassExcludesMutation ==
  /\ [](InPass =>
         /\ \A t \in Threads \ {RenderThread} : thPc[t] = "idle"
         /\ Len(Driven) <= Len(m_renderLoopClients)
         /\ Driven = SubSeq(m_renderLoopClients, 1, Len(Driven))
         /\ PassOver => Driven = m_renderLoopClients)
  /\ [][InPass => m_renderLoopClients' = m_renderLoopClients]_vars

\* The FrameMove of the last of two or more participants is running, the list
\* has room for another, and the other threads are outside the registry.
C17_Witness ==
  /\ thPc[RenderThread] = "framemove"
  /\ drvIt = Len(m_renderLoopClients)
  /\ Len(m_renderLoopClients) >= 2
  /\ Len(m_renderLoopClients) < MaxListLen
  /\ Len(Driven) = Len(m_renderLoopClients)
  /\ \A t \in Threads \ {RenderThread} : thPc[t] = "idle"

----------------------------------------------------------------------------
(* Claims about the AddResolution scan *)

\* The indices ScreenResolutions scans: RES_CUSTOM to the end of the store.
Scanned == RES_CUSTOM..(ResolutionInfoSize - 1)

\* The key of the record of the store at index k.
RecordKey(k) ==
  <<GetResolutionInfo(k).iScreenWidth, GetResolutionInfo(k).iScreenHeight,
    BitAnd(GetResolutionInfo(k).dwFlags, D3DPRESENTFLAG_MODEMASK)>>

KeyCount(s, key) == Cardinality({ p \in 1..Len(s) : Key(s[p]) = key })

Max(S) == CHOOSE x \in S : \A y \in S : x >= y

\* The records AddResolution was called for so far, and the vector they left:
\* the local vector inside the loop, the vector handed to sort() afterwards.
Seen == RES_CUSTOM..(srIdx - 1)
Unsorted == IF srPc = "loop" THEN resolutions ELSE srUnsorted

\* The entry a record of the store makes when AddResolution appends it.
EntryOf(k) ==
  [width |-> RecordKey(k)[1], height |-> RecordKey(k)[2], flags |-> RecordKey(k)[3],
   ResInfo_Index |-> k]

\* The records seen after the first that have the key of entry e; those of
\* them that have the preferred rate.
Matchers(e) == { k \in Seen : k # RES_CUSTOM /\ RecordKey(k) = Key(e) }
Preferred(e) ==
  { k \in Matchers(e) : srRate > 0 /\ GetResolutionInfo(k).fRefreshRate = srRate }

\* C11: ScreenResolutions run again on the records named by the list it
\* returned yields the same multiset of (width, height, masked flags) keys as
\* the first run: as many entries, and as many entries of every key.
C11_ScanAgainSameKeys ==
  srPc = "again" =>
    /\ Len(srAgain) = Len(resolutions)
    /\ \A p \in 1..Len(resolutions) :
         KeyCount(srAgain, Key(resolutions[p])) = KeyCount(resolutions, Key(resolutions[p]))

\* C15: after every AddResolution call, and in the vector handed to the sort,
\* the first element is the entry made from the first scanned record, with
\* that record's width, height, masked flags and index.
C15_BaselineKept ==
  Seen # {} => Unsorted[1] = EntryOf(RES_CUSTOM)

\* The scan is over; two later records had the key of the first record and
\* the preferred rate, which the first record does not have.
C15_Witness ==
  /\ srPc = "done"
  /\ Seen # {}
  /\ srRate > 0
  /\ GetResolutionInfo(RES_CUSTOM).fRefreshRate # srRate
  /\ Cardinality({ k \in Seen : /\ k # RES_CUSTOM
                                 /\ RecordKey(k) = RecordKey(RES_CUSTOM)
                                 /\ GetResolutionInfo(k).fRefreshRate = srRate }) >= 2

\* C16: every entry but the first has the width, height and masked flags of
\* the first later record of its key (its creator), and the index of the last
\* seen record of its key with the preferred rate if the preferred rate is > 0
\* and there is one, otherwise the index of its creator; there is one such
\* entry per key of the later records, so a matching record adds none.
C16_LastPreferredWins ==
  LET keyOf == [k \in Seen |-> RecordKey(k)]
      later == Seen \ {RES_CUSTOM}
  IN  /\ \A p \in 2..Len(Unsorted) :
           LET e == Unsorted[p]
               key == Key(e)
               matchers == { k \in later : keyOf[k] = key }
               preferred == { k \in matchers :
                                srRate > 0 /\ GetResolutionInfo(k).fRefreshRate = srRate }
               creator == Min(matchers)
           IN  /\ matchers # {}
               /\ <<e.width, e.height, e.flags>> = keyOf[creator]
               /\ e.ResInfo_Index = IF preferred # {} THEN Max(preferred) ELSE creator
      /\ Seen # {} => Len(Unsorted) = 1 + Cardinality({ keyOf[k] : k \in later })

\* An entry whose creator does not have the preferred rate and that two later
\* records of its key with the preferred rate matched.
C16_Witness ==
  /\ srPc = "done"
  /\ \E p \in 2..Len(srUnsorted) :
       /\ Cardinality(Preferred(srUnsorted[p])) >= 2
       /\ Min(Matchers(srUnsorted[p])) \notin Preferred(srUnsorted[p])

\* C18: in the list ScreenResolutions returns a key has at most two entries;
\* it has two only if it is the key of the first scanned record, one of them
\* made from that record, and then a later record has that key; every other
\* key has exactly one entry.
C18_TwiceOnlyFirstKey ==
  srPc = "done" =>
    LET keys == [p \in 1..Len(resolutions) |-> Key(resolutions[p])]
        first == RecordKey(RES_CUSTOM)
    IN  \A p \in 1..Len(resolutions) :
          LET n == Cardinality({ q \in 1..Len(resolutions) : keys[q] = keys[p] })
          IN  IF keys[p] = first
              THEN /\ n <= 2
                   /\ \E q \in 1..Len(resolutions) : resolutions[q] = EntryOf(RES_CUSTOM)
                   /\ n = 2 <=> \E k \in Scanned : k # RES_CUSTOM /\ RecordKey(k) = first
              ELSE n = 1

\* A returned list with the first record's key twice, from three records of
\* that key, and another key.
C18_Witness ==
  /\ srPc = "done"
  /\ Scanned # {}
  /\ KeyCount(resolutions, RecordKey(RES_CUSTOM)) = 2
  /\ Cardinality({ k \in Scanned : RecordKey(k) = RecordKey(RES_CUSTOM) }) >= 3
  /\ \E p \in 1..Len(resolutions) : Key(resolutions[p]) # RecordKey(RES_CUSTOM)

\* C19: after every AddResolution call and in the sorted result, every
\* entry's ResInfo_Index is the index of a seen record whose width, height and
\* masked flags are the entry's width, height and flags.
C19_IndexOfSameKey ==
  LET keyOf == [k \in Seen |-> RecordKey(k)]
  IN  /\ \A p \in 1..Len(Unsorted) :
           /\ Unsorted[p].ResInfo_Index \in Seen
           /\ keyOf[Unsorted[p].ResInfo_Index]
                = <<Unsorted[p].width, Unsorted[p].height, Unsorted[p].flags>>
      /\ srPc = "done" =>
           \A p \in 1..Len(resolutions) :
             /\ resolutions[p].ResInfo_Index \in Scanned
             /\ keyOf[resolutions[p].ResInfo_Index]
                  = <<resolutions[p].width, resolutions[p].height, resolutions[p].flags>>

\* A sorted result with an entry whose index the preferred-rate rule replaced,
\* next to a record that differs from the entry's key in the flags only.
C19_Witness ==
  /\ srPc = "done"
  /\ \E p \in 1..Len(resolutions) :
       /\ resolutions[p].ResInfo_Index \in Preferred(resolutions[p])
       /\ resolutions[p].ResInfo_Index # Min(Matchers(resolutions[p]))
       /\ \E k \in Scanned : /\ RecordKey(k) # Key(resolutions[p])
                              /\ RecordKey(k)[1] = resolutions[p].width
                              /\ RecordKey(k)[2] = resolutions[p].height

\* C20: for every record ScreenResolutions scans, the returned list has an
\* entry with that record's width, height and masked flags; with no record
\* to scan the returned list is empty.
C20_NoKeyLost ==
  srPc = "done" =>
    /\ \A k \in Scanned :
         \E p \in 1..Len(resolutions) :
           <<resolutions[p].width, resolutions[p].height, resolutions[p].flags>>
             = RecordKey(k)
    /\ Scanned = {} => resolutions = <<>>

\* A returned list shorter than the scanned range that holds two keys of one
\* width and different heights.
C20_Witness ==
  /\ srPc = "done"
  /\ Len(resolutions) < Cardinality(Scanned)
  /\ \E p, q \in 2..Len(srUnsorted) :
       /\ srUnsorted[p].width = srUnsorted[q].width
       /\ srUnsorted[p].height # srUnsorted[q].height

----------------------------------------------------------------------------
(* Claims about the HDR status and toggle *)

\* The statuses as GetHDRDisplayStatus returns them.  Unknown and NotCapable
\* are the same return value; the text of txDeviceInfo tells them apart, and
\* it is logged only when the service manager is up.
NotCapable == 0
CapableAndOff == 1
CapableAndOn == 2
Unknown == 0

\* C12: when a platform call of the query fails, GetHDRDisplayStatus returns
\* Unknown, never CapableAndOff or CapableAndOn (so IsDisplayHDREnabled says
\* no), and a ToggleWindowsHDR whose query fails issues no set request and
\* leaves the platform state as it was.
C12_FailureIsUnknownNoToggle ==
  /\ (hdrOp \in {"GetHDRDisplayStatus", "IsDisplayHDREnabled"} /\ hdrFailed # "none") =>
       /\ status = Unknown
       /\ status \notin {CapableAndOff, CapableAndOn}
       /\ txDeviceInfo = ""
       /\ hdrLogged = ""
       /\ hdrOp = "IsDisplayHDREnabled" => ~hdrEnabled
  /\ \A t \in 1..Len(hdrLog) :
       hdrLog[t].failed # "none" =>
         hdrLog[t].requests = <<>> /\ hdrLog[t].after = hdrLog[t].before

\* The device-info request of GetHDRDisplayStatus failed on a display with
\* HDR on, after a toggle whose query failed on that display.
C12_Witness ==
  /\ hdrOp = "GetHDRDisplayStatus"
  /\ hdrFailed = "DisplayConfigGetDeviceInfo"
  /\ hdrCode = xD3
  /\ \E t \in 1..Len(hdrLog) : hdrLog[t].failed # "none" /\ hdrLog[t].before = xD3

\* Toggle t completed its query, and the platform applied its set request.
Applied(t) == hdrLog[t].failed = "none" /\ hdrLog[t].applied

\* C13: with set requests applied, a toggle on CapableAndOff issues exactly
\* one request, which turns HDR on, a toggle on CapableAndOn exactly one, which
\* turns it off; IsDisplayHDREnabled differs before and after each, and two
\* successive toggles restore the status.  On NotCapable or any other code a
\* toggle issues no request and the status stays.  IsDisplayHDREnabled is true
\* iff the status is CapableAndOn.
C13_ToggleFlips ==
  /\ \A t \in 1..Len(hdrLog) :
       Applied(t) =>
         /\ hdrLog[t].before = xD1 =>
              /\ hdrLog[t].requests = <<1>>
              /\ GetHDRDisplayStatus("none", hdrLog[t].after, TRUE).status = CapableAndOn
         /\ hdrLog[t].before = xD3 =>
              /\ hdrLog[t].requests = <<0>>
              /\ GetHDRDisplayStatus("none", hdrLog[t].after, TRUE).status = CapableAndOff
         /\ hdrLog[t].before \in {xD1, xD3} =>
              \A up \in BOOLEAN :
                IsDisplayHDREnabled("none", hdrLog[t].after, up)
                  # IsDisplayHDREnabled("none", hdrLog[t].before, up)
         /\ hdrLog[t].before \notin {xD1, xD3} =>
              /\ hdrLog[t].requests = <<>>
              /\ hdrLog[t].after = hdrLog[t].before
  /\ \A t \in 1..(Len(hdrLog) - 1) :
       (Applied(t) /\ Applied(t + 1)) => hdrLog[t + 1].after = hdrLog[t].before
  /\ (hdrOp = "IsDisplayHDREnabled" /\ hdrFailed = "none") =>
       (hdrEnabled <=> hdrCode = xD3)

\* Two successive applied toggles from CapableAndOff, then IsDisplayHDREnabled.
C13_Witness ==
  /\ Len(hdrLog) >= 2
  /\ Applied(1) /\ Applied(2)
  /\ hdrLog[1].before = xD1
  /\ hdrLog[2].before = xD3
  /\ hdrCode = xD1
  /\ hdrOp = "IsDisplayHDREnabled" /\ hdrFailed = "none"

\* C14: on a successful query GetHDRDisplayStatus maps 0xD0 to NotCapable,
\* 0xD1 to CapableAndOff, 0xD3 to CapableAndOn and every other code to Unknown
\* (txDeviceInfo "UNKNOWN"); the result is one of the four statuses.  The
\* text is logged if and only if the service manager is up.
C14_CodeToStatus ==
  (hdrOp = "GetHDRDisplayStatus" /\ hdrFailed = "none") =>
    /\ hdrCode = xD0 => status = NotCapable /\ txDeviceInfo = "No HDR capable"
    /\ hdrCode = xD1 => status = CapableAndOff /\ txDeviceInfo = "HDR capable and OFF"
    /\ hdrCode = xD3 => status = CapableAndOn /\ txDeviceInfo = "HDR capable and ON"
    /\ hdrCode \notin {xD0, xD1, xD3} => status = Unknown /\ txDeviceInfo = "UNKNOWN"
    /\ status \in {NotCapable, CapableAndOff, CapableAndOn, Unknown}
    /\ hdrLogged = IF hdrServiceUp THEN txDeviceInfo ELSE ""

\* A successful query on a display that reports none of the three codes.
C14_Witness ==
  /\ hdrOp = "GetHDRDisplayStatus"
  /\ hdrFailed = "none"
  /\ hdrCode \notin {xD0, xD1, xD3}
  /\ txDeviceInfo = "UNKNOWN"
  /\ ~hdrServiceUp
  /\ hdrLogged = ""

====
